---- MODULE Spec2Model ----
(***************************************************************************)
(* A model of pyalgotrading/algobulls/api.py: the AlgoBullsAPI client.     *)
(*                                                                         *)
(* The client's state is its `headers` attribute and its three key slots.  *)
(* Every public method is one action; the backend is the environment and   *)
(* answers every request with any status code and a JSON or non-JSON body. *)
(*                                                                         *)
(* Python values are represented as follows:                               *)
(*   - a str is a TLA+ string; where a str-or-None is held (a key, a key   *)
(*     slot) None is the marker string None;                               *)
(*   - a dict is a TLA+ record; where a dict-or-None is held (headers,     *)
(*     params, json) None is the marker record NoneObj;                    *)
(*   - an enum member or any other object passed as an enumerated tag is   *)
(*     a string naming the object.                                         *)
(***************************************************************************)
EXTENDS Integers, Sequences, FiniteSets, TLC

VARIABLES
    headers,            \* self.headers
    key_backtesting,    \* self.__key_backtesting
    key_papertrading,   \* self.__key_papertrading
    key_realtrading,    \* self.__key_realtrading
    call,               \* the method call that has just ended: its arguments, HTTP exchanges and outcome
    prev,               \* what SpecTwice remembers of the call before that one
    token,              \* the argument of the last set_access_token call (None before the first)
    threads             \* the concurrent callers of SpecThreads (idle under Spec)

vars == <<headers, key_backtesting, key_papertrading, key_realtrading, call, prev, token, threads>>

----------------------------------------------------------------------------
(* Bounds of the model *)

\* number of distinct strategy codes the callers use
NumStrategies == 2
\* number of distinct access tokens
NumTokens == 2

----------------------------------------------------------------------------
(* Python values *)

None == "<None>"
NoneObj == [py_none |-> TRUE]

\* f'{value}' for a str-or-None value
Format(value) == IF value = None THEN "None" ELSE "" \o value

SERVER_ENDPOINT == "http://127.0.0.1:8000/"

\* members of TradingType and TradingReportType (..constants)
BACKTESTING == "TradingType.BACKTESTING"
PAPERTRADING == "TradingType.PAPERTRADING"
REALTRADING == "TradingType.REALTRADING"
TradingType == {BACKTESTING, PAPERTRADING, REALTRADING}

PNL_TABLE == "TradingReportType.PNL_TABLE"
STATS_TABLE == "TradingReportType.STATS_TABLE"
ORDER_HISTORY == "TradingReportType.ORDER_HISTORY"
TradingReportType == {PNL_TABLE, STATS_TABLE, ORDER_HISTORY}

\* trading_type.value
TradingTypeValue(trading_type) ==
    CASE trading_type = BACKTESTING -> "BACKTESTING"
      [] trading_type = PAPERTRADING -> "PAPERTRADING"
      [] trading_type = REALTRADING -> "REALTRADING"

\* Objects a caller may pass where an enumerated tag is expected: the members,
\* a plain string (equal to no member), and an object that compares equal to
\* everything (unittest.mock.ANY) but is identical to no member.
PlainString == "str:BACKTESTING"
ANY == "mock.ANY"
TradingTypeArgs == TradingType \cup {PlainString, ANY}
ReportTypeArgs == TradingReportType \cup {PlainString, ANY}

\* Python's `a is b` and `a == b` on these objects
Is(a, b) == a = b
Eq(a, b) == a = b \/ a = ANY \/ b = ANY

StrategyCodes == {"strategy" \o ToString(i) : i \in 1..NumStrategies}
Tokens == {"token" \o ToString(i) : i \in 1..NumTokens}

----------------------------------------------------------------------------
(* The backend (the environment) *)

OtherStatusCodes == {418, 503}
StatusCodes == {200, 400, 401, 402, 403, 404, 500} \cup OtherStatusCodes

RegistrationEndpoint == "v2/portfolio/strategy"

\* the key the backend hands out when strategyId is registered for tradingType:
\* one strategy code and trading mode pair has one key, and no two pairs share one
BackendKey(strategyId, tradingType) ==
    "key:" \o strategyId \o ":" \o tradingType

BackendKeys ==
    {BackendKey(s, TradingTypeValue(t)) : s \in StrategyCodes, t \in TradingType}

\* the registrations that key answers
KeyOrigins(key) ==
    {st \in StrategyCodes \X TradingType : BackendKey(st[1], TradingTypeValue(st[2])) = key}

IsRegistration(request) ==
    request.method = "options" /\ request.url = SERVER_ENDPOINT \o RegistrationEndpoint

\* A response: the status code and the body, which parses as JSON or does not.
JsonBody(value) == [is_json |-> TRUE, json |-> value]
NonJsonBody == [is_json |-> FALSE, json |-> NoneObj]

\* What the backend may answer to a request.
Backend(request) ==
    LET ok == IF IsRegistration(request)
              THEN {JsonBody([key |-> BackendKey(request.json.strategyId, request.json.tradingType)]),
                    JsonBody([data |-> "ok"]), JsonBody([py_list |-> TRUE]), NonJsonBody}
              ELSE {JsonBody([data |-> "ok"]), JsonBody([py_list |-> TRUE]), NonJsonBody}
        failed == {JsonBody([message |-> "error"]), NonJsonBody}
    IN  {[status_code |-> 200, body |-> b] : b \in ok}
        \cup {[status_code |-> s, body |-> b] : s \in StatusCodes \ {200}, b \in failed}

----------------------------------------------------------------------------
(* Outcomes of a call *)

Return(value) == [type |-> "return", value |-> value]
Raise(kind) == [type |-> "raise", exc |-> [kind |-> kind]]
RaiseAPI(kind, method, url, response) ==
    [type |-> "raise", exc |-> [kind |-> kind, method |-> method, url |-> url, response |-> response]]

----------------------------------------------------------------------------
(* The client *)

\* the object `self`
Self ==
    [headers |-> headers,
     key_backtesting |-> key_backtesting,
     key_papertrading |-> key_papertrading,
     key_realtrading |-> key_realtrading]

\* __init__
InitSelf ==
    [headers |-> NoneObj,
     key_backtesting |-> None,
     key_papertrading |-> None,
     key_realtrading |-> None]

\* set_access_token, had it dropped the cached keys with the old token
set_access_token_resetting(self, access_token) ==
    [self EXCEPT !.headers = [Authorization |-> Format(access_token)],
                 !.key_backtesting = None,
                 !.key_papertrading = None,
                 !.key_realtrading = None]

\* set_access_token: the new headers attribute
set_access_token(self, access_token) ==
    [self EXCEPT !.headers = [Authorization |-> Format(access_token)]]

\* line 56, had it ignored requires_authorization
RequestHeaders_always(self, requires_authorization) ==
    self.headers

\* _send_request, line 56: the headers handed to requests.request
RequestHeaders(self, requires_authorization) ==
    IF requires_authorization THEN self.headers ELSE NoneObj

\* response.json(): the parsed body, or JSONDecodeError
ResponseJsonRaises(response) == ~response.body.is_json

\* str(response)
StrResponse(response) == "<Response [" \o ToString(response.status_code) \o "]>"

\* _send_request, lines 59-62: response_json, a dict ([dict |-> d]) or a str ([str |-> s])
ResponseJson(response) ==
    IF ResponseJsonRaises(response)
    THEN [str |-> StrResponse(response)]
    ELSE [dict |-> response.body.json]

\* lines 64-85, had the branches of 402 and 403 raised each other's error
Dispatch_swapped(method, url, response, response_json) ==
    CASE response.status_code = 200 ->
            IF ResponseJsonRaises(response)
            THEN Raise("JSONDecodeError")
            ELSE Return([dict |-> response.body.json])
      [] response.status_code = 400 -> RaiseAPI("AlgoBullsAPIBadRequest", method, url, response_json)
      [] response.status_code = 401 -> RaiseAPI("AlgoBullsAPIUnauthorizedError", method, url, response_json)
      [] response.status_code = 402 -> RaiseAPI("AlgoBullsAPIForbiddenError", method, url, response_json)
      [] response.status_code = 403 -> RaiseAPI("AlgoBullsAPIInsufficientBalanceError", method, url, response_json)
      [] response.status_code = 404 -> RaiseAPI("AlgoBullsAPIResourceNotFoundError", method, url, response_json)
      [] response.status_code = 500 -> RaiseAPI("AlgoBullsAPIInternalServerErrorException", method, url, response_json)
      [] OTHER -> RaiseAPI("AlgoBullsAPIBaseException", method, url, response_json)

\* _send_request, lines 64-85: what the call does with the response
Dispatch(method, url, response, response_json) ==
    CASE response.status_code = 200 ->
            IF ResponseJsonRaises(response)
            THEN Raise("JSONDecodeError")
            ELSE Return([dict |-> response.body.json])
      [] response.status_code = 400 -> RaiseAPI("AlgoBullsAPIBadRequest", method, url, response_json)
      [] response.status_code = 401 -> RaiseAPI("AlgoBullsAPIUnauthorizedError", method, url, response_json)
      [] response.status_code = 402 -> RaiseAPI("AlgoBullsAPIInsufficientBalanceError", method, url, response_json)
      [] response.status_code = 403 -> RaiseAPI("AlgoBullsAPIForbiddenError", method, url, response_json)
      [] response.status_code = 404 -> RaiseAPI("AlgoBullsAPIResourceNotFoundError", method, url, response_json)
      [] response.status_code = 500 -> RaiseAPI("AlgoBullsAPIInternalServerErrorException", method, url, response_json)
      [] OTHER -> RaiseAPI("AlgoBullsAPIBaseException", method, url, response_json)

\* _send_request, lines 55-57: the request handed to requests.request
Request(self, method, endpoint, params, json_data, requires_authorization) ==
    [method |-> method,
     headers |-> RequestHeaders(self, requires_authorization),
     url |-> SERVER_ENDPOINT \o endpoint,
     params |-> params,
     json |-> json_data]

\* _send_request, lines 57-85: every exchange the request may be, one per
\* answer of the backend
Exchange(request) ==
    {[request |-> request,
      response |-> response,
      result |-> Dispatch(request.method, request.url, response, ResponseJson(response))] :
        response \in Backend(request)}

_send_request(self, method, endpoint, params, json_data, requires_authorization) ==
    Exchange(Request(self, method, endpoint, params, json_data, requires_authorization))

\* response.get('key') on the dict a registration returned
GetKeyField(value) ==
    IF "py_list" \in DOMAIN value.dict
    THEN Raise("AttributeError")
    ELSE [type |-> "return",
          key |-> IF "key" \in DOMAIN value.dict THEN value.dict.key ELSE None]

\* __fetch_key: the exchange and the key returned (or the error raised)
__fetch_key(self, strategy_code, trading_type) ==
    LET endpoint == RegistrationEndpoint
        json_data == [strategyId |-> strategy_code, tradingType |-> TradingTypeValue(trading_type)]
    IN  {[exchange |-> x,
          result |-> IF x.result.type = "return" THEN GetKeyField(x.result.value) ELSE x.result] :
            x \in _send_request(self, "options", endpoint, NoneObj, json_data, TRUE)}

\* a branch of __get_key, had it fetched the key without testing the slot
GetKeySlot_uncached(self, slot, strategy_code, member) ==
    {IF f.result.type = "return"
     THEN [self |-> [self EXCEPT ![slot] = f.result.key],
           exchanges |-> <<f.exchange>>,
           result |-> [type |-> "return", key |-> f.result.key]]
     ELSE [self |-> self, exchanges |-> <<f.exchange>>, result |-> f.result] :
        f \in __fetch_key(self, strategy_code, member)}

\* __get_key, one branch: the slot is read, filled when it is None, and read again
GetKeySlot(self, slot, strategy_code, member) ==
    IF self[slot] = None
    THEN {IF f.result.type = "return"
          THEN [self |-> [self EXCEPT ![slot] = f.result.key],
                exchanges |-> <<f.exchange>>,
                result |-> [type |-> "return", key |-> f.result.key]]
          ELSE [self |-> self, exchanges |-> <<f.exchange>>, result |-> f.result] :
            f \in __fetch_key(self, strategy_code, member)}
    ELSE {[self |-> self, exchanges |-> <<>>, result |-> [type |-> "return", key |-> self[slot]]]}

\* lines 96-109, had the PAPERTRADING branch used the slot of BACKTESTING
KeyBranch_shared(trading_type) ==
    IF Is(trading_type, BACKTESTING)
    THEN [slot |-> "key_backtesting", member |-> BACKTESTING]
    ELSE IF Is(trading_type, PAPERTRADING)
    THEN [slot |-> "key_backtesting", member |-> PAPERTRADING]
    ELSE IF Is(trading_type, REALTRADING)
    THEN [slot |-> "key_realtrading", member |-> REALTRADING]
    ELSE NoneObj

\* __get_key, lines 96-109: the branch taken for trading_type, with the slot it
\* uses and the member it registers (NoneObj: the else branch)
KeyBranch(trading_type) ==
    IF Is(trading_type, BACKTESTING)
    THEN [slot |-> "key_backtesting", member |-> BACKTESTING]
    ELSE IF Is(trading_type, PAPERTRADING)
    THEN [slot |-> "key_papertrading", member |-> PAPERTRADING]
    ELSE IF Is(trading_type, REALTRADING)
    THEN [slot |-> "key_realtrading", member |-> REALTRADING]
    ELSE NoneObj

\* __get_key, had its REALTRADING branch been a copy of the PAPERTRADING one
__get_key_copied(self, strategy_code, trading_type) ==
    LET branch == KeyBranch(trading_type)
    IN  IF branch = NoneObj
        THEN {[self |-> self, exchanges |-> <<>>, result |-> Raise("NotImplementedError")]}
        ELSE IF branch.member = REALTRADING
        THEN GetKeySlot(self, "key_papertrading", strategy_code, branch.member)
        ELSE GetKeySlot(self, branch.slot, strategy_code, branch.member)

\* __get_key
__get_key(self, strategy_code, trading_type) ==
    LET branch == KeyBranch(trading_type)
    IN  IF branch = NoneObj
        THEN {[self |-> self, exchanges |-> <<>>, result |-> Raise("NotImplementedError")]}
        ELSE GetKeySlot(self, branch.slot, strategy_code, branch.member)

\* the outcome of a method that does one request and returns its response
OneRequest(self, exchanges) ==
    {[self |-> self, exchanges |-> <<x>>, outcome |-> x.result] : x \in exchanges}

\* the outcome of a method whose __get_key call raised
KeyRaised(k) == [self |-> k.self, exchanges |-> k.exchanges, outcome |-> k.result]

create_strategy(self, strategy_name, strategy_details, abc_version) ==
    LET json_data == [strategyName |-> strategy_name, strategyDetails |-> strategy_details, abcVersion |-> abc_version]
        endpoint == "v2/user/strategy/build/python"
    IN  OneRequest(self, _send_request(self, "post", endpoint, NoneObj, json_data, TRUE))

update_strategy(self, strategy_name, strategy_details, abc_version) ==
    LET json_data == [strategyName |-> strategy_name, strategyDetails |-> strategy_details, abcVersion |-> abc_version]
        endpoint == "v2/user/strategy/build/python"
    IN  OneRequest(self, _send_request(self, "put", endpoint, NoneObj, json_data, TRUE))

get_all_strategies(self) ==
    LET endpoint == "v2/user/strategy/build/python"
    IN  OneRequest(self, _send_request(self, "options", endpoint, NoneObj, NoneObj, TRUE))

get_strategy_details(self, strategy_code) ==
    LET params == [strategyCode |-> strategy_code]
        endpoint == "v2/user/strategy/build/python"
    IN  OneRequest(self, _send_request(self, "get", endpoint, params, NoneObj, TRUE))

search_instrument(self, instrument) ==
    LET params == [instrument |-> instrument]
        endpoint == "v2/instrument/search"
    IN  OneRequest(self, _send_request(self, "get", endpoint, params, NoneObj, FALSE))

\* set_strategy_config, lines 221-223
TweakRequest(self, key, strategy_config) ==
    LET endpoint == "v2/user/strategy/" \o Format(key) \o "/tweak"
    IN  Request(self, "patch", endpoint, NoneObj, strategy_config, TRUE)

\* set_strategy_config, line 225
TweakOutcome(key, result) ==
    IF result.type = "return"
    THEN Return([tuple0 |-> key, tuple1 |-> result.value])
    ELSE result

set_strategy_config(self, strategy_code, strategy_config, trading_type) ==
    UNION {
        IF k.result.type = "raise"
        THEN {KeyRaised(k)}
        ELSE {[self |-> k.self,
               exchanges |-> k.exchanges \o <<x>>,
               outcome |-> TweakOutcome(k.result.key, x.result)] :
                 x \in Exchange(TweakRequest(k.self, k.result.key, strategy_config))} :
        k \in __get_key(self, strategy_code, trading_type)}

\* The exception classes (.exceptions and Python's own): the proper ancestors of a class
Bases(kind) ==
    CASE kind = "AlgoBullsAPIBaseException" -> {"Exception"}
      [] kind \in {"AlgoBullsAPIBadRequest", "AlgoBullsAPIUnauthorizedError",
                   "AlgoBullsAPIInsufficientBalanceError", "AlgoBullsAPIForbiddenError",
                   "AlgoBullsAPIResourceNotFoundError", "AlgoBullsAPIInternalServerErrorException"} ->
            {"AlgoBullsAPIBaseException", "Exception"}
      [] kind = "NotImplementedError" -> {"RuntimeError", "Exception"}
      [] kind = "JSONDecodeError" -> {"ValueError", "Exception"}
      [] kind = "AttributeError" -> {"Exception"}

\* `except (AlgoBullsAPIForbiddenError, AlgoBullsAPIInsufficientBalanceError)` of start and stop
Swallowed == {"AlgoBullsAPIForbiddenError", "AlgoBullsAPIInsufficientBalanceError"}

\* the try block, had its handler named the base class of the errors
Handled_base(result) ==
    IF result.type = "raise" /\ "AlgoBullsAPIBaseException" \in ({result.exc.kind} \cup Bases(result.exc.kind))
    THEN Return(NoneObj)
    ELSE result

\* the outcome of a try block with that handler: a caught error is printed and the method returns None
Handled(result) ==
    IF result.type = "raise" /\ \E c \in Swallowed : result.exc.kind = c \/ c \in Bases(result.exc.kind)
    THEN Return(NoneObj)
    ELSE result

\* start_strategy_algotrading and stop_strategy_algotrading, lines 234-241 and 261-268
JobEndpoint(trading_type) ==
    IF Eq(trading_type, REALTRADING) THEN "v2/portfolio/strategies"
    ELSE IF Eq(trading_type, PAPERTRADING) THEN "v2/papertrading/strategies"
    ELSE IF Eq(trading_type, BACKTESTING) THEN "v2/backtesting/strategies"
    ELSE None

\* start and stop, lines 245-247 and 272-274
JobRequest(self, key, endpoint, newVal, status) ==
    LET json_data == [method |-> "update", newVal |-> newVal, key |-> key, record |-> [status |-> status]]
    IN  Request(self, "post", endpoint, NoneObj, json_data, TRUE)

\* the try block of start and stop
JobTry(self, strategy_code, trading_type, endpoint, newVal, status) ==
    UNION {
        IF k.result.type = "raise"
        THEN {[self |-> k.self, exchanges |-> k.exchanges, outcome |-> Handled(k.result)]}
        ELSE {[self |-> k.self,
               exchanges |-> k.exchanges \o <<x>>,
               outcome |-> Handled(x.result)] :
                 x \in Exchange(JobRequest(k.self, k.result.key, endpoint, newVal, status))} :
        k \in __get_key(self, strategy_code, trading_type)}

start_strategy_algotrading(self, strategy_code, trading_type) ==
    LET endpoint == JobEndpoint(trading_type)
    IN  IF endpoint = None
        THEN {[self |-> self, exchanges |-> <<>>, outcome |-> Raise("NotImplementedError")]}
        ELSE JobTry(self, strategy_code, trading_type, endpoint, 1, 0)

stop_strategy_algotrading(self, strategy_code, trading_type) ==
    LET endpoint == JobEndpoint(trading_type)
    IN  IF endpoint = None
        THEN {[self |-> self, exchanges |-> <<>>, outcome |-> Raise("NotImplementedError")]}
        ELSE JobTry(self, strategy_code, trading_type, endpoint, 0, 2)

\* get_job_status, lines 298-300
StatusRequest(self, key) ==
    LET params == [key |-> key]
        endpoint == "v2/user/strategy/status"
    IN  Request(self, "get", endpoint, params, NoneObj, TRUE)

get_job_status(self, strategy_code, trading_type) ==
    UNION {
        IF k.result.type = "raise"
        THEN {KeyRaised(k)}
        ELSE {[self |-> k.self, exchanges |-> k.exchanges \o <<x>>, outcome |-> x.result] :
                 x \in Exchange(StatusRequest(k.self, k.result.key))} :
        k \in __get_key(self, strategy_code, trading_type)}

\* get_logs, lines 304 and 306-307
LogsRequest(self, key) ==
    LET endpoint == "v2/user/strategy/logs"
        json_data == [key |-> key]
    IN  Request(self, "post", endpoint, NoneObj, json_data, TRUE)

get_logs(self, strategy_code, trading_type) ==
    UNION {
        IF k.result.type = "raise"
        THEN {KeyRaised(k)}
        ELSE {[self |-> k.self, exchanges |-> k.exchanges \o <<x>>, outcome |-> x.result] :
                 x \in Exchange(LogsRequest(k.self, k.result.key))} :
        k \in __get_key(self, strategy_code, trading_type)}

\* get_reports, lines 325-332
ReportEndpoint(report_type) ==
    IF Is(report_type, PNL_TABLE) THEN "v2/user/strategy/pltable"
    ELSE IF Is(report_type, STATS_TABLE) THEN "v2/user/strategy/statstable"
    ELSE IF Is(report_type, ORDER_HISTORY) THEN "v2/user/strategy/orderhistory"
    ELSE None

\* get_reports, lines 335-336
ReportRequest(self, key, endpoint) ==
    LET params == [key |-> key]
    IN  Request(self, "get", endpoint, params, NoneObj, TRUE)

\* get_reports, had it resolved the key before selecting the endpoint
get_reports_key_first(self, strategy_code, trading_type, report_type) ==
    LET endpoint == ReportEndpoint(report_type)
    IN  UNION {
            IF k.result.type = "raise"
            THEN {KeyRaised(k)}
            ELSE IF endpoint = None
            THEN {[self |-> k.self, exchanges |-> k.exchanges, outcome |-> Raise("NotImplementedError")]}
            ELSE {[self |-> k.self, exchanges |-> k.exchanges \o <<x>>, outcome |-> x.result] :
                     x \in Exchange(ReportRequest(k.self, k.result.key, endpoint))} :
            k \in __get_key(self, strategy_code, trading_type)}

get_reports(self, strategy_code, trading_type, report_type) ==
    LET endpoint == ReportEndpoint(report_type)
    IN  IF endpoint = None
        THEN {[self |-> self, exchanges |-> <<>>, outcome |-> Raise("NotImplementedError")]}
        ELSE UNION {
                IF k.result.type = "raise"
                THEN {KeyRaised(k)}
                ELSE {[self |-> k.self, exchanges |-> k.exchanges \o <<x>>, outcome |-> x.result] :
                         x \in Exchange(ReportRequest(k.self, k.result.key, endpoint))} :
                k \in __get_key(self, strategy_code, trading_type)}

----------------------------------------------------------------------------
(* The sequential client: one caller, one method call at a time *)

\* arguments that no claim distinguishes
StrategyNames == {"name"}
StrategyDetails == {"class Strategy: pass"}
AbcVersions == {"3.3.0"}
Instruments == {"NSE:SBIN"}
StrategyConfigs == {[candle |-> "1 minute"]}

Threads == {"t1", "t2"}
IdleThread == [pc |-> "idle"]

KeyOperations ==
    {"set_strategy_config", "start_strategy_algotrading", "stop_strategy_algotrading",
     "get_job_status", "get_logs", "get_reports"}

\* the registration requests among the exchanges of a call
Registrations(exchanges) ==
    {i \in DOMAIN exchanges : IsRegistration(exchanges[i].request)}

\* the slot __get_key uses for a member of TradingType
SlotOf(self, trading_type) ==
    CASE trading_type = BACKTESTING -> self.key_backtesting
      [] trading_type = PAPERTRADING -> self.key_papertrading
      [] trading_type = REALTRADING -> self.key_realtrading

\* what is remembered of a call when the next one is made: the trading mode of
\* a key-dependent operation, the registration requests it sent, and whether
\* the slot of that mode held a key when it ended
Summary(c) ==
    LET keyed == c.op \in KeyOperations /\ c.args.trading_type \in TradingType
    IN  [trading_type |-> IF keyed THEN c.args.trading_type ELSE None,
         registrations |-> Cardinality(Registrations(c.exchanges)),
         cached |-> keyed /\ SlotOf(Self, c.args.trading_type) # None]

\* no call has ended that the caller has not yet taken the outcome of
NoCall == [op |-> "none", args |-> NoneObj, exchanges |-> <<>>, outcome |-> Return(NoneObj)]

Init ==
    /\ headers = InitSelf.headers
    /\ key_backtesting = InitSelf.key_backtesting
    /\ key_papertrading = InitSelf.key_papertrading
    /\ key_realtrading = InitSelf.key_realtrading
    /\ call = NoCall
    /\ prev = Summary(NoCall)
    /\ token = None
    /\ threads = [t \in Threads |-> IdleThread]

\* the caller is ready to make a call
Idle == call = NoCall

\* the method `op` was called with `args` and ended as `o`
Called(op, args, o) ==
    /\ headers' = o.self.headers
    /\ key_backtesting' = o.self.key_backtesting
    /\ key_papertrading' = o.self.key_papertrading
    /\ key_realtrading' = o.self.key_realtrading
    /\ call' = [op |-> op, args |-> args, exchanges |-> o.exchanges, outcome |-> o.outcome]
    /\ token' = IF op = "set_access_token" THEN args.access_token ELSE token
    /\ UNCHANGED <<prev, threads>>

SetAccessToken ==
    /\ Idle
    /\ \E access_token \in Tokens :
           Called("set_access_token", [access_token |-> access_token],
                  [self |-> set_access_token(Self, access_token), exchanges |-> <<>>, outcome |-> Return(NoneObj)])

CreateStrategy ==
    /\ Idle
    /\ \E strategy_name \in StrategyNames, strategy_details \in StrategyDetails, abc_version \in AbcVersions :
           \E o \in create_strategy(Self, strategy_name, strategy_details, abc_version) :
               Called("create_strategy", [strategy_name |-> strategy_name], o)

UpdateStrategy ==
    /\ Idle
    /\ \E strategy_name \in StrategyNames, strategy_details \in StrategyDetails, abc_version \in AbcVersions :
           \E o \in update_strategy(Self, strategy_name, strategy_details, abc_version) :
               Called("update_strategy", [strategy_name |-> strategy_name], o)

GetAllStrategies ==
    /\ Idle
    /\ \E o \in get_all_strategies(Self) :
           Called("get_all_strategies", NoneObj, o)

GetStrategyDetails ==
    /\ Idle
    /\ \E strategy_code \in StrategyCodes :
           \E o \in get_strategy_details(Self, strategy_code) :
               Called("get_strategy_details", [strategy_code |-> strategy_code], o)

SearchInstrument ==
    /\ Idle
    /\ \E instrument \in Instruments :
           \E o \in search_instrument(Self, instrument) :
               Called("search_instrument", [instrument |-> instrument], o)

SetStrategyConfig ==
    /\ Idle
    /\ \E strategy_code \in StrategyCodes, strategy_config \in StrategyConfigs, trading_type \in TradingTypeArgs :
           \E o \in set_strategy_config(Self, strategy_code, strategy_config, trading_type) :
               Called("set_strategy_config", [strategy_code |-> strategy_code, trading_type |-> trading_type], o)

StartStrategyAlgotrading ==
    /\ Idle
    /\ \E strategy_code \in StrategyCodes, trading_type \in TradingTypeArgs :
           \E o \in start_strategy_algotrading(Self, strategy_code, trading_type) :
               Called("start_strategy_algotrading", [strategy_code |-> strategy_code, trading_type |-> trading_type], o)

StopStrategyAlgotrading ==
    /\ Idle
    /\ \E strategy_code \in StrategyCodes, trading_type \in TradingTypeArgs :
           \E o \in stop_strategy_algotrading(Self, strategy_code, trading_type) :
               Called("stop_strategy_algotrading", [strategy_code |-> strategy_code, trading_type |-> trading_type], o)

GetJobStatus ==
    /\ Idle
    /\ \E strategy_code \in StrategyCodes, trading_type \in TradingTypeArgs :
           \E o \in get_job_status(Self, strategy_code, trading_type) :
               Called("get_job_status", [strategy_code |-> strategy_code, trading_type |-> trading_type], o)

GetLogs ==
    /\ Idle
    /\ \E strategy_code \in StrategyCodes, trading_type \in TradingTypeArgs :
           \E o \in get_logs(Self, strategy_code, trading_type) :
               Called("get_logs", [strategy_code |-> strategy_code, trading_type |-> trading_type], o)

GetReports ==
    /\ Idle
    /\ \E strategy_code \in StrategyCodes, trading_type \in TradingTypeArgs, report_type \in ReportTypeArgs :
           \E o \in get_reports(Self, strategy_code, trading_type, report_type) :
               Called("get_reports",
                      [strategy_code |-> strategy_code, trading_type |-> trading_type, report_type |-> report_type], o)

\* the caller takes the outcome of the call and goes on
Resume ==
    /\ call # NoCall
    /\ call' = NoCall
    /\ UNCHANGED <<headers, key_backtesting, key_papertrading, key_realtrading, prev, token, threads>>

Next ==
    \/ Resume
    \/ SetAccessToken
    \/ CreateStrategy
    \/ UpdateStrategy
    \/ GetAllStrategies
    \/ GetStrategyDetails
    \/ SearchInstrument
    \/ SetStrategyConfig
    \/ StartStrategyAlgotrading
    \/ StopStrategyAlgotrading
    \/ GetJobStatus
    \/ GetLogs
    \/ GetReports

Spec == Init /\ [][Next]_vars

----------------------------------------------------------------------------
(* Two key-dependent operations in sequence: the calls are remembered *)

ResumeTwice ==
    /\ call # NoCall
    /\ call' = NoCall
    /\ prev' = Summary(call)
    /\ UNCHANGED <<headers, key_backtesting, key_papertrading, key_realtrading, token, threads>>

NextTwice ==
    \/ ResumeTwice
    \/ SetStrategyConfig
    \/ StartStrategyAlgotrading
    \/ StopStrategyAlgotrading
    \/ GetJobStatus
    \/ GetLogs
    \/ GetReports

SpecTwice == Init /\ [][NextTwice]_vars

\* the request of a key-dependent operation carries `key`
CarriesKey(op, request, key) ==
    CASE op = "set_strategy_config" ->
            request.url = SERVER_ENDPOINT \o "v2/user/strategy/" \o Format(key) \o "/tweak"
      [] op \in {"start_strategy_algotrading", "stop_strategy_algotrading", "get_logs"} ->
            request.json.key = key
      [] op \in {"get_job_status", "get_reports"} ->
            request.params.key = key

----------------------------------------------------------------------------
(* Several threads calling key-dependent operations on one client.  A thread
   runs __get_key statement by statement: the test of the slot, the
   registration request, the assignment to the slot and the read of the slot
   for the return value are separate steps, and the steps of the threads
   interleave freely.  The six operations differ only in the request they send
   once __get_key has returned, so a thread is followed from its call of
   __get_key and the operation it is in is named when it sends that request.
   The threads pass members of the enumerations: a call with another object
   ends before any slot is read. *)

\* the slot named `slot` is assigned `value`
AssignSlot(slot, value) ==
    /\ key_backtesting' = IF slot = "key_backtesting" THEN value ELSE key_backtesting
    /\ key_papertrading' = IF slot = "key_papertrading" THEN value ELSE key_papertrading
    /\ key_realtrading' = IF slot = "key_realtrading" THEN value ELSE key_realtrading

\* the request operation `op` sends once it has its key
ThreadRequest(self, op, trading_type, report_type, key) ==
    CASE op = "set_strategy_config" -> TweakRequest(self, key, CHOOSE c \in StrategyConfigs : TRUE)
      [] op = "start_strategy_algotrading" -> JobRequest(self, key, JobEndpoint(trading_type), 1, 0)
      [] op = "stop_strategy_algotrading" -> JobRequest(self, key, JobEndpoint(trading_type), 0, 2)
      [] op = "get_job_status" -> StatusRequest(self, key)
      [] op = "get_logs" -> LogsRequest(self, key)
      [] op = "get_reports" -> ReportRequest(self, key, ReportEndpoint(report_type))

\* a thread in a key-dependent operation calls __get_key
ThreadCall(t) ==
    /\ threads[t].pc = "idle"
    /\ \E strategy_code \in StrategyCodes, trading_type \in TradingType :
           threads' = [threads EXCEPT ![t] =
                          [pc |-> "get_key", strategy_code |-> strategy_code,
                           trading_type |-> trading_type, key |-> None, sent |-> FALSE]]
    /\ UNCHANGED <<headers, key_backtesting, key_papertrading, key_realtrading, call, prev, token>>

\* __get_key: the branch is chosen and its slot tested
ThreadTest(t) ==
    /\ threads[t].pc = "get_key"
    /\ LET branch == KeyBranch(threads[t].trading_type)
       IN  threads' = [threads EXCEPT ![t].pc = IF Self[branch.slot] = None THEN "fetch" ELSE "return"]
    /\ UNCHANGED <<headers, key_backtesting, key_papertrading, key_realtrading, call, prev, token>>

\* __get_key: __fetch_key is called; an error ends the operation
ThreadFetch(t) ==
    /\ threads[t].pc = "fetch"
    /\ LET th == threads[t]
           branch == KeyBranch(th.trading_type)
           fetched == {IF f.result.type = "return"
                       THEN [th EXCEPT !.pc = "store", !.key = f.result.key]
                       ELSE [th EXCEPT !.pc = "raised"] :
                          f \in __fetch_key(Self, th.strategy_code, branch.member)}
       IN  \E next \in fetched : threads' = [threads EXCEPT ![t] = next]
    /\ UNCHANGED <<headers, key_backtesting, key_papertrading, key_realtrading, call, prev, token>>

\* __get_key: the key fetched is assigned to the slot
ThreadStore(t) ==
    /\ threads[t].pc = "store"
    /\ AssignSlot(KeyBranch(threads[t].trading_type).slot, threads[t].key)
    /\ threads' = [threads EXCEPT ![t].pc = "return"]
    /\ UNCHANGED <<headers, call, prev, token>>

\* __get_key: the slot is read and returned
ThreadReturn(t) ==
    /\ threads[t].pc = "return"
    /\ threads' = [threads EXCEPT ![t].pc = "send",
                                  ![t].key = Self[KeyBranch(threads[t].trading_type).slot]]
    /\ UNCHANGED <<headers, key_backtesting, key_papertrading, key_realtrading, call, prev, token>>

\* the operation sends its request with the key returned
ThreadSend(t) ==
    /\ threads[t].pc = "send"
    /\ LET th == threads[t]
           ops == {o \in KeyOperations \X (TradingReportType \cup {None}) :
                      (o[1] = "get_reports") <=> (o[2] # None)}
           sent == {CarriesKey(op[1], ThreadRequest(Self, op[1], th.trading_type, op[2], th.key), th.key) :
                      op \in ops}
       IN  \E carried \in sent : threads' = [threads EXCEPT ![t].pc = "done", ![t].sent = carried]
    /\ UNCHANGED <<headers, key_backtesting, key_papertrading, key_realtrading, call, prev, token>>

\* the operation has ended and the thread goes on
ThreadResume(t) ==
    /\ threads[t].pc \in {"done", "raised"}
    /\ threads' = [threads EXCEPT ![t] = IdleThread]
    /\ UNCHANGED <<headers, key_backtesting, key_papertrading, key_realtrading, call, prev, token>>

NextThreads ==
    \E t \in Threads :
        \/ ThreadCall(t)
        \/ ThreadTest(t)
        \/ ThreadFetch(t)
        \/ ThreadStore(t)
        \/ ThreadReturn(t)
        \/ ThreadSend(t)
        \/ ThreadResume(t)

SpecThreads == Init /\ [][NextThreads]_vars

----------------------------------------------------------------------------
(* What the properties below read off a call *)

\* the exchanges of the call that has just ended
Exchanges == {call.exchanges[i] : i \in DOMAIN call.exchanges}

\* the requests of the call other than registrations
OperationRequests == {x.request : x \in {y \in Exchanges : ~IsRegistration(y.request)}}

\* the call is a key-dependent operation given a member of TradingType
KeyedCall == call.op \in KeyOperations /\ call.args.trading_type \in TradingType

\* the error kinds of the taxonomy, by status code
APIErrorKinds ==
    {"AlgoBullsAPIBadRequest", "AlgoBullsAPIUnauthorizedError", "AlgoBullsAPIInsufficientBalanceError",
     "AlgoBullsAPIForbiddenError", "AlgoBullsAPIResourceNotFoundError",
     "AlgoBullsAPIInternalServerErrorException", "AlgoBullsAPIBaseException"}

ExpectedKind(status_code) ==
    CASE status_code = 400 -> "AlgoBullsAPIBadRequest"
      [] status_code = 401 -> "AlgoBullsAPIUnauthorizedError"
      [] status_code = 402 -> "AlgoBullsAPIInsufficientBalanceError"
      [] status_code = 403 -> "AlgoBullsAPIForbiddenError"
      [] status_code = 404 -> "AlgoBullsAPIResourceNotFoundError"
      [] status_code = 500 -> "AlgoBullsAPIInternalServerErrorException"
      [] OTHER -> "AlgoBullsAPIBaseException"

\* the payload of a response: its body when it is JSON, else the response as a string
ExpectedPayload(response) ==
    IF response.body.is_json
    THEN [dict |-> response.body.json]
    ELSE [str |-> "<Response [" \o ToString(response.status_code) \o "]>"]

----------------------------------------------------------------------------
(* C1 *)

\* C1: every response whose status is not 200 makes _send_request raise the
\* error kind that its status code alone determines (400, 401, 402, 403, 404
\* and 500 their own kind, any other status the base error), carrying the
\* method, the URL and the payload of that exchange.
C1_StatusDeterminesError ==
    \A x \in Exchanges :
        x.response.status_code # 200 =>
            /\ x.result.type = "raise"
            /\ x.result.exc.kind = ExpectedKind(x.response.status_code)
            /\ x.result.exc.method = x.request.method
            /\ x.result.exc.url = x.request.url
            /\ x.result.exc.response = ExpectedPayload(x.response)

\* get_logs registered a key and its own request was answered 503 with a body
\* that is not JSON: the base error carries the response as a string
C1_Witness ==
    /\ call.op = "get_logs"
    /\ Len(call.exchanges) = 2
    /\ call.exchanges[2].response.status_code = 503
    /\ ~call.exchanges[2].response.body.is_json
    /\ call.outcome.type = "raise"
    /\ call.outcome.exc.kind = "AlgoBullsAPIBaseException"
    /\ call.outcome.exc.method = "post"
    /\ call.outcome.exc.url = "http://127.0.0.1:8000/v2/user/strategy/logs"
    /\ call.outcome.exc.response = [str |-> "<Response [503]>"]


----------------------------------------------------------------------------
(* C10 *)

\* C10: whatever the status code of a response and whether or not its body
\* parses as JSON, _send_request returns the payload (status 200) or raises
\* one of the seven error kinds of the taxonomy, and fails in no other way.
C10_ReturnsOrRaisesTaxonomy ==
    \A x \in Exchanges :
        \/ x.result.type = "return" /\ x.response.status_code = 200
        \/ x.result.type = "raise" /\ x.result.exc.kind \in APIErrorKinds

----------------------------------------------------------------------------
(* C3 *)

\* the status codes other than 200 that the backend answered during the call
ErrorStatuses == {x.response.status_code : x \in {y \in Exchanges : y.response.status_code # 200}}

\* C3: a call returns without raising after the backend answered one of its
\* requests with an error status if and only if it is start_strategy_algotrading
\* or stop_strategy_algotrading and the status is 403 or 402, and it then returns
\* None; in every other case the error of that status reaches the caller.
C3_SwallowOnlyInStartStop ==
    (call # NoCall /\ ErrorStatuses # {}) =>
        LET swallow == /\ call.op \in {"start_strategy_algotrading", "stop_strategy_algotrading"}
                       /\ ErrorStatuses \cap {402, 403} # {}
        IN  /\ call.outcome.type = "return" <=> swallow
            /\ swallow => call.outcome = Return(NoneObj)
            /\ ~swallow =>
                   /\ call.outcome.type = "raise"
                   /\ \E status_code \in ErrorStatuses : call.outcome.exc.kind = ExpectedKind(status_code)

\* start registered its key, its own request was answered 402, and it
\* returned None
C3_Witness ==
    /\ call.op = "start_strategy_algotrading"
    /\ Len(call.exchanges) = 2
    /\ call.exchanges[1].response.status_code = 200
    /\ call.exchanges[2].response.status_code = 402
    /\ call.outcome = Return(NoneObj)

----------------------------------------------------------------------------
(* C4 *)

\* C4: a request carries an Authorization header if and only if the operation
\* requires authorization (every operation but search_instrument) and
\* set_access_token has been called before; the value is then the last token
\* set, verbatim.
C4_AuthorizationHeader ==
    \A x \in Exchanges :
        IF call.op # "search_instrument" /\ token # None
        THEN x.request.headers = [Authorization |-> token]
        ELSE "Authorization" \notin DOMAIN x.request.headers

\* search_instrument was called after a token was set, and sent no header
C4_Witness ==
    /\ call.op = "search_instrument"
    /\ token \in Tokens
    /\ headers = [Authorization |-> token]
    /\ \E x \in Exchanges : x.request.headers = NoneObj

----------------------------------------------------------------------------
(* C5 *)

\* the slots of the trading modes other than trading_type are left as they are
OtherSlotsUnchanged(trading_type) ==
    /\ trading_type # BACKTESTING => key_backtesting' = key_backtesting
    /\ trading_type # PAPERTRADING => key_papertrading' = key_papertrading
    /\ trading_type # REALTRADING => key_realtrading' = key_realtrading

\* the key a call in its trading mode sends is the one in that mode's slot, and
\* no key that only registrations of other modes return
SendsOwnSlot ==
    KeyedCall =>
        \A request \in OperationRequests :
            /\ CarriesKey(call.op, request, SlotOf(Self, call.args.trading_type))
            /\ \A key \in BackendKeys :
                   CarriesKey(call.op, request, key) =>
                       \E origin \in KeyOrigins(key) : origin[2] = call.args.trading_type

\* C5: the three slots are independent: a key-dependent operation in one
\* trading mode leaves the slots of the two other modes as they were, and the
\* key it sends is the one of its own mode's slot, never one fetched for
\* another mode.
C5_SlotsIndependent ==
    /\ [][(call' # NoCall /\ call'.op \in KeyOperations /\ call'.args.trading_type \in TradingType)
            => OtherSlotsUnchanged(call'.args.trading_type)]_vars
    /\ []SendsOwnSlot

\* get_job_status in PAPERTRADING registered and sent its key while the two
\* other slots held keys of their own
C5_Witness ==
    /\ call.op = "get_job_status"
    /\ call.args.trading_type = PAPERTRADING
    /\ Len(call.exchanges) = 2
    /\ key_backtesting \in BackendKeys
    /\ key_realtrading \in BackendKeys
    /\ key_papertrading \in BackendKeys
    /\ call.exchanges[2].request.params.key = key_papertrading
    /\ key_papertrading # key_backtesting
    /\ key_papertrading # key_realtrading

----------------------------------------------------------------------------
(* C6 *)

\* C6: every key-dependent operation called with strategy code c in trading
\* mode m sends the key that the backend returned for a registration of c in m.
C6_KeyPerStrategyAndMode ==
    KeyedCall =>
        \A request \in OperationRequests :
            \A key \in BackendKeys :
                CarriesKey(call.op, request, key) =>
                    <<call.args.strategy_code, call.args.trading_type>> \in KeyOrigins(key)

----------------------------------------------------------------------------
(* C7 *)

\* the registration requests of a call that are for trading_type
RegistrationsFor(c, trading_type) ==
    {i \in Registrations(c.exchanges) :
        c.exchanges[i].request.json.tradingType = TradingTypeValue(trading_type)}

\* a slot that holds a key keeps it, and no registration for its mode is sent
SlotKept(slot, slot_next, trading_type) ==
    slot # None =>
        /\ slot_next = slot
        /\ RegistrationsFor(call', trading_type) = {}

\* C7: once the slot of a trading mode holds a key, it holds that key in every
\* later state, whatever is called, and no registration request for that mode
\* is sent again.
C7_KeyNeverRefreshed ==
    [][/\ SlotKept(key_backtesting, key_backtesting', BACKTESTING)
       /\ SlotKept(key_papertrading, key_papertrading', PAPERTRADING)
       /\ SlotKept(key_realtrading, key_realtrading', REALTRADING)]_vars

\* stop was called for another strategy code in a mode whose slot held a key:
\* it sent that key, although the backend would return another one
C7_Witness ==
    /\ call.op = "stop_strategy_algotrading"
    /\ call.args.trading_type = REALTRADING
    /\ Len(call.exchanges) = 1
    /\ key_realtrading \in BackendKeys
    /\ call.exchanges[1].request.json.key = key_realtrading
    /\ <<call.args.strategy_code, REALTRADING>> \notin KeyOrigins(key_realtrading)
    /\ call.exchanges[1].response.status_code = 403
    /\ token # None

----------------------------------------------------------------------------
(* C8 *)

\* the call was given an object that is no member of the enumeration
UnrecognizedTag ==
    /\ call.op \in KeyOperations
    /\ \/ call.args.trading_type \notin TradingType
       \/ call.op = "get_reports" /\ call.args.report_type \notin TradingReportType

\* C8: an operation given an unrecognized trading mode or report kind raises
\* NotImplementedError to its caller, sends no request and leaves the three
\* slots as they were.
C8_UnrecognizedTagRaises ==
    /\ [](UnrecognizedTag =>
            /\ call.outcome = Raise("NotImplementedError")
            /\ call.exchanges = <<>>)
    /\ [][UnrecognizedTag' =>
            UNCHANGED <<key_backtesting, key_papertrading, key_realtrading>>]_vars

\* start was given an object that compares equal to every member and is none
C8_Witness ==
    /\ call.op = "start_strategy_algotrading"
    /\ call.args.trading_type = ANY
    /\ call.outcome = Raise("NotImplementedError")
    /\ call.exchanges = <<>>
    /\ key_realtrading \in BackendKeys

----------------------------------------------------------------------------
(* C2 *)

\* the number of registration requests the call that has just ended sent
CallRegistrations == Cardinality(Registrations(call.exchanges))

\* the call and the one before it are key-dependent operations in one trading mode
SecondInSameMode == KeyedCall /\ prev.trading_type = call.args.trading_type

\* the call went as far as __get_key
ReachedGetKey == call.op = "get_reports" => call.args.report_type \in TradingReportType

\* C2: two key-dependent operations called in sequence in one trading mode send
\* at most one registration request in total.
C2_AtMostOneRegistration ==
    SecondInSameMode => prev.registrations + CallRegistrations <= 1

\* C2, amended: neither call sends more than one registration request, and the
\* second call sends none exactly when the first one left a key in the slot of
\* the mode; when the first registration failed or returned no key, the second
\* call registers again.
C2_OneRegistrationOnceCached ==
    SecondInSameMode =>
        /\ prev.registrations <= 1
        /\ CallRegistrations <= 1
        /\ prev.cached => CallRegistrations = 0
        /\ (~prev.cached /\ ReachedGetKey) => CallRegistrations = 1

\* get_logs after a call in the same mode that registered the key: it sent its
\* own request and no registration
C2_Witness ==
    /\ SecondInSameMode
    /\ call.op = "get_logs"
    /\ prev.registrations = 1
    /\ prev.cached
    /\ CallRegistrations = 0
    /\ Len(call.exchanges) = 1

----------------------------------------------------------------------------
(* C9 *)

\* the keys the backend returns for registrations in a trading mode
KeysOfMode(trading_type) ==
    {key \in BackendKeys : \E origin \in KeyOrigins(key) : origin[2] = trading_type}

\* C9: under every interleaving of the steps of __get_key in several threads,
\* each slot holds None or a key the backend returns for a registration in the
\* mode of that slot, and every operation sends a key of its own mode (or the
\* None of a registration that returned no key).
C9_NoCorruptionUnderRaces ==
    /\ key_backtesting \in KeysOfMode(BACKTESTING) \cup {None}
    /\ key_papertrading \in KeysOfMode(PAPERTRADING) \cup {None}
    /\ key_realtrading \in KeysOfMode(REALTRADING) \cup {None}
    /\ \A t \in Threads :
           /\ threads[t].pc \in {"store", "send", "done"} =>
                  threads[t].key \in KeysOfMode(threads[t].trading_type) \cup {None}
           /\ threads[t].pc = "done" => threads[t].sent

\* two threads registered in the same mode at the same time: one has sent the
\* key it stored while the slot already holds the key the other stored
C9_Witness ==
    \E t, u \in Threads :
        /\ t # u
        /\ threads[t].pc = "done"
        /\ threads[u].pc = "send"
        /\ threads[t].trading_type = PAPERTRADING
        /\ threads[u].trading_type = PAPERTRADING
        /\ threads[t].key \in BackendKeys
        /\ threads[u].key \in BackendKeys
        /\ threads[t].key # threads[u].key
        /\ key_papertrading = threads[u].key

====
